---------------------------- MODULE Spec2Model ----------------------------
(***************************************************************************)
(* Model of scripts/3_compute_distances.py: the label-line parser, the     *)
(* frame indexer, the row assembler and the batch driver (directory mode,  *)
(* archive mode, CSV writing, optional plot).                              *)
(*                                                                         *)
(* Representation.                                                         *)
(*  - A Python float is a record [k, v]: k = "fin" with v the value in     *)
(*    halves (v = 3 is 1.5), or k = "nan" / "inf".  None is [k |-> "none"].*)
(*  - A token of a line is a record [k, v]: k = "dec" (a decimal literal   *)
(*    of v halves), "nan", "inf" (literals float() accepts) or "bad" (a    *)
(*    token float() rejects).  A line is the sequence of its tokens, i.e.  *)
(*    line.strip().split() already applied; a blank line is <<>>.          *)
(*  - A call's outcome is [exc, val]: exc = "none" and the returned value, *)
(*    or the name of the exception that escaped.                           *)
(*  - A file name is the sequence of its characters.                       *)
(***************************************************************************)
EXTENDS Integers, Sequences, FiniteSets, TLC

VARIABLES
    pc,          \* position of the running call / of main
    line,        \* parse_label_line: its argument
    parsed,      \* parse_label_line: its outcome
    fname,       \* extract_frame_index: its argument
    frame,       \* extract_frame_index: its outcome
    fh,          \* process_txt_handle: the file (name, kind, lines)
    ret,         \* process_txt_handle: its outcome
    labels_dir,  \* main: args.labels_dir (given or not, and the directory's entries)
    archive,     \* main: args.archive (each archive the set of its members)
    rows,        \* main: rows
    out,         \* process_dir / process_archive: out
    todo,        \* process_dir / process_archive: the sorted entries not yet visited
    ai,          \* main: index of the archive being processed
    csv,         \* the output CSV file (NoFile until written)
    nwrites,     \* how many times the CSV was opened for writing
    plot,        \* main: args.plot is given
    plotfile,    \* the plot image (NoFile until saved)
    status       \* exit status of the run: "running", "ok", or the escaped exception

vars == <<pc, line, parsed, fname, frame, fh, ret, labels_dir, archive, rows,
          out, todo, ai, csv, nwrites, plot, plotfile, status>>

-----------------------------------------------------------------------------
(* Bounds of the model *)

\* longest keypoint remainder (tokens after the first five) of a generated line
MaxRem == 9
\* longest generated file-name stem
MaxStem == 4
\* most lines in a generated label file
MaxLines == 3
\* most entries in the label directory
MaxDirFiles == 2
\* most members in one archive
MaxMembers == 2
\* most archives on the command line
MaxArchives == 2

(* Program constants: the argparse defaults *)
width == 1080
height == 1920
fps == 30

-----------------------------------------------------------------------------
(* Values *)

None == [k |-> "none", v |-> 0]
Fin(n) == [k |-> "fin", v |-> n]
NaN == [k |-> "nan", v |-> 0]
Inf == [k |-> "inf", v |-> 0]
PyInt(n) == [k |-> "int", v |-> n]

Ret(x) == [exc |-> "none", val |-> x]
Raise(e) == [exc |-> e, val |-> None]

\* float(t) for one token: ValueError on a token that is no float literal
to_float(t) ==
    CASE t.k = "dec" -> Ret(Fin(t.v))
      [] t.k = "nan" -> Ret(NaN)
      [] t.k = "inf" -> Ret(Inf)
      [] OTHER       -> Raise("ValueError")

\* int(x) for a float: truncation toward zero; nan and inf are not convertible
to_int(x) ==
    CASE x.k = "nan" -> Raise("ValueError")
      [] x.k = "inf" -> Raise("OverflowError")
      [] OTHER       -> Ret(PyInt(IF x.v >= 0 THEN x.v \div 2 ELSE -((-x.v) \div 2)))

\* float arithmetic used by the metric: x * n for a positive integer n
FMul(x, n) == IF x.k = "fin" THEN Fin(x.v * n) ELSE x

FSub(x, y) ==
    CASE x.k = "nan" \/ y.k = "nan" -> NaN
      [] x.k = "inf" /\ y.k = "inf" -> NaN
      [] x.k = "inf" \/ y.k = "inf" -> Inf
      [] OTHER                      -> Fin(x.v - y.v)

\* math.hypot(x, y): kept exact as the square of the result (k = "hyp", v in
\* quarter units); an infinite argument wins over a nan one, as in C's hypot
hypot(x, y) ==
    CASE x.k = "inf" \/ y.k = "inf" -> Inf
      [] x.k = "nan" \/ y.k = "nan" -> NaN
      [] OTHER                      -> [k |-> "hyp", v |-> x.v * x.v + y.v * y.v]

\* d / math.hypot(width, height): the divisor is a positive finite constant, so
\* the quotient is kept as the dividend tagged "norm"
FDivDiag(d) == IF d.k = "hyp" THEN [k |-> "norm", v |-> d.v] ELSE d

-----------------------------------------------------------------------------
(* parse_label_line *)

RECURSIVE Triplets(_)
\* lines 35-41: x, y, c = next(it) x 3 until StopIteration; a partial group is lost
Triplets(rem) ==
    IF Len(rem) < 3 THEN <<>>
    ELSE << <<rem[1], rem[2], rem[3]>> >> \o Triplets(SubSeq(rem, 4, Len(rem)))

RECURSIVE Pairs(_)
\* lines 43-49 and 52-58: x, y = next(it) x 2 until StopIteration; confidence None
Pairs(rem) ==
    IF Len(rem) < 2 THEN <<>>
    ELSE << <<rem[1], rem[2], None>> >> \o Pairs(SubSeq(rem, 3, Len(rem)))

\* a plausible slip: the pair test placed before the triplet test
kps_pairs_first(rem) ==
    IF rem = <<>> THEN <<>>
    ELSE IF Len(rem) % 2 = 0 THEN Pairs(rem)
    ELSE IF Len(rem) % 3 = 0 THEN Triplets(rem)
    ELSE Pairs(rem)

\* a plausible slip: the odd remainder keeps its last token as a half-filled pair
kps_keep_last(rem) ==
    IF rem = <<>> THEN <<>>
    ELSE IF Len(rem) % 3 = 0 THEN Triplets(rem)
    ELSE IF Len(rem) % 2 = 0 THEN Pairs(rem)
    ELSE Pairs(rem) \o << <<rem[Len(rem)], None, None>> >>

\* lines 30-58: the keypoints grouped out of the remainder
kps_of(rem) ==
    IF rem = <<>> THEN <<>>
    ELSE IF Len(rem) % 3 = 0 THEN Triplets(rem)
    ELSE IF Len(rem) % 2 = 0 THEN Pairs(rem)
    ELSE Pairs(rem)

parse_label_line(l) ==
    LET toks == l IN
    IF Len(toks) < 5 THEN Ret(None)
    ELSE IF \E i \in 1..Len(toks) : to_float(toks[i]).exc # "none" THEN Ret(None)
    ELSE LET vals == [i \in 1..Len(toks) |-> to_float(toks[i]).val]
             cls == to_int(vals[1])
         IN  IF cls.exc # "none" THEN Raise(cls.exc)
             ELSE Ret([cls |-> cls.val,
                       box |-> SubSeq(vals, 2, 5),
                       kps |-> kps_of(SubSeq(vals, 6, Len(vals)))])

-----------------------------------------------------------------------------
(* Generated lines *)

Dec(n) == [k |-> "dec", v |-> n]
Tok(kind) == [k |-> kind, v |-> 0]

\* a line of n tokens, the i-th the decimal literal of (base + i) halves, except
\* that token p (if p > 0) is a literal of kind `kind`
MkLine(n, p, kind, base) ==
    [i \in 1..n |-> IF i = p THEN Tok(kind) ELSE Dec(base + i)]

Lines ==
    { MkLine(n, p, kind, base) :
        n \in 0..(5 + MaxRem), p \in 0..(5 + MaxRem),
        kind \in {"nan", "inf", "bad"}, base \in {0, 1} }

-----------------------------------------------------------------------------
(* extract_frame_index *)

DecimalChars == <<"0", "1", "2", "3", "4", "5", "6", "7", "8", "9">>

\* re's \d and what int() reads: a decimal digit
IsDecimal(c) == \E i \in 1..10 : DecimalChars[i] = c

\* str.isdigit(): decimal digits and the digit-like characters, here the
\* superscript two, that are no decimal digits
IsDigit(c) == IsDecimal(c) \/ c = "sup2"

DigitVal(c) == (CHOOSE i \in 1..10 : DecimalChars[i] = c) - 1

RECURSIVE DecimalValue(_)
DecimalValue(s) ==
    IF s = <<>> THEN 0
    ELSE 10 * DecimalValue(SubSeq(s, 1, Len(s) - 1)) + DigitVal(s[Len(s)])

\* int(s) for a string: ValueError unless s is a non-empty run of decimal digits
str_to_int(s) ==
    IF s # <<>> /\ \A i \in 1..Len(s) : IsDecimal(s[i])
    THEN Ret(PyInt(DecimalValue(s)))
    ELSE Raise("ValueError")

\* str.isdigit() of a string
isdigit(s) == s # <<>> /\ \A i \in 1..Len(s) : IsDigit(s[i])

\* the part of s after its last occurrence of c (all of s when c is not in s)
AfterLast(s, c) ==
    LET at == {i \in 1..Len(s) : s[i] = c}
    IN  IF at = {} THEN s
        ELSE SubSeq(s, (CHOOSE i \in at : \A j \in at : j <= i) + 1, Len(s))

\* the part of s before its last occurrence of c (all of s when c is not in s)
BeforeLast(s, c) ==
    LET at == {i \in 1..Len(s) : s[i] = c}
    IN  IF at = {} THEN s
        ELSE SubSeq(s, 1, (CHOOSE i \in at : \A j \in at : j <= i) - 1)

\* os.path.basename
basename(p) == AfterLast(p, "/")

DotTxt == <<".", "t", "x", "t">>

\* FRAME_RE.search(b) for (\d+)\.txt$ : group 1 of the leftmost match, or None
FRAME_RE_search(b) ==
    LET n == Len(b)
        starts == {i \in 1..(n - 4) :
                     /\ SubSeq(b, n - 3, n) = DotTxt
                     /\ \A j \in i..(n - 4) : IsDecimal(b[j])}
    IN  IF starts = {} THEN <<>>
        ELSE SubSeq(b, CHOOSE i \in starts : \A j \in starts : i <= j, n - 4)

extract_frame_index(f) ==
    LET m == FRAME_RE_search(basename(f))
        last == AfterLast(BeforeLast(basename(f), "."), "_")
    IN  IF m # <<>> THEN str_to_int(m)
        ELSE IF isdigit(last) THEN str_to_int(last)
        ELSE Ret(None)

-----------------------------------------------------------------------------
(* Generated file names *)

StemChars == {"a", "_", ".", "0", "7", "sup2"}

Stems == UNION {[1..n -> StemChars] : n \in 0..MaxStem}

Prefixes == {<<>>, <<"d", "_", "5", "/">>}

Extensions == {<<>>, DotTxt, <<".", "T", "X", "T">>}

Names == {p \o s \o e : p \in Prefixes, s \in Stems, e \in Extensions}

-----------------------------------------------------------------------------
(* process_txt_handle *)

norm_to_px(x, y, w, h) == <<FMul(x, w), FMul(y, h)>>

\* lines 81-95 and 98-108 with the threshold off by one
make_row_three(filename_label, fr, kps) ==
    LET have == Len(kps) >= 3
        nose_px  == IF have THEN norm_to_px(kps[1][1], kps[1][2], width, height)
                    ELSE <<None, None>>
        mouth_px == IF have THEN norm_to_px(kps[2][1], kps[2][2], width, height)
                    ELSE <<None, None>>
        d_px == IF nose_px[1] = None \/ mouth_px[1] = None THEN None
                ELSE hypot(FSub(nose_px[1], mouth_px[1]), FSub(nose_px[2], mouth_px[2]))
    IN  [filename |-> filename_label, frame |-> fr,
         time_s |-> IF fr # None /\ fps # 0 THEN [k |-> "quot", v |-> fr.v] ELSE None,
         nose_x |-> nose_px[1], nose_y |-> nose_px[2],
         mouth_x |-> mouth_px[1], mouth_y |-> mouth_px[2],
         d_px |-> d_px,
         d_norm |-> IF d_px = None THEN None ELSE FDivDiag(d_px)]

\* lines 81-95 and 97-108: one output row from a record's keypoints and the
\* file's frame index; time_s = frame / fps is kept as the quotient of frame
make_row(filename_label, fr, kps) ==
    LET have == Len(kps) >= 2
        nose_px  == IF have THEN norm_to_px(kps[1][1], kps[1][2], width, height)
                    ELSE <<None, None>>
        mouth_px == IF have THEN norm_to_px(kps[2][1], kps[2][2], width, height)
                    ELSE <<None, None>>
        d_px == IF nose_px[1] = None \/ mouth_px[1] = None THEN None
                ELSE hypot(FSub(nose_px[1], mouth_px[1]), FSub(nose_px[2], mouth_px[2]))
    IN  [filename |-> filename_label, frame |-> fr,
         time_s |-> IF fr # None /\ fps # 0 THEN [k |-> "quot", v |-> fr.v] ELSE None,
         nose_x |-> nose_px[1], nose_y |-> nose_px[2],
         mouth_x |-> mouth_px[1], mouth_y |-> mouth_px[2],
         d_px |-> d_px,
         d_norm |-> IF d_px = None THEN None ELSE FDivDiag(d_px)]

RECURSIVE StripBlank(_)
\* fh.read().strip().splitlines(): leading and trailing blank lines are gone
StripBlank(text) ==
    IF text = <<>> THEN <<>>
    ELSE IF text[1] = <<>> THEN StripBlank(Tail(text))
    ELSE IF text[Len(text)] = <<>> THEN StripBlank(SubSeq(text, 1, Len(text) - 1))
    ELSE text

RECURSIVE handle_loop(_, _, _, _)
\* lines 76-108: the loop over the lines from line i on, acc the rows so far
handle_loop(filename_label, text, i, acc) ==
    IF i > Len(text) THEN Ret(acc)
    ELSE IF text[i] = <<>> THEN handle_loop(filename_label, text, i + 1, acc)
    ELSE LET p == parse_label_line(text[i]) IN
         IF p.exc # "none" THEN Raise(p.exc)
         ELSE IF p.val = None THEN handle_loop(filename_label, text, i + 1, acc)
         ELSE LET fr == extract_frame_index(filename_label) IN
              IF fr.exc # "none" THEN Raise(fr.exc)
              ELSE handle_loop(filename_label, text, i + 1,
                               Append(acc, make_row(filename_label, fr.val, p.val.kps)))

\* fh is [kind, lines]: reading a handle over bytes that are no UTF-8 text
\* ("binary") raises in fh.read()
process_txt_handle(filename_label, f) ==
    IF f.kind # "text" THEN Raise("UnicodeDecodeError")
    ELSE handle_loop(filename_label, StripBlank(f.lines), 1, <<>>)

-----------------------------------------------------------------------------
(* Generated label files *)

HandleLines ==
    { MkLine(n, 0, "bad", 0) : n \in {0, 3, 5, 7, 9, 11} }
    \cup { MkLine(9, 1, "nan", 0), MkLine(9, 1, "inf", 0),
           MkLine(9, 7, "bad", 0), MkLine(9, 6, "nan", 0) }

HandleTexts == UNION {[1..n -> HandleLines] : n \in 0..MaxLines}

HandleNames ==
    { <<"a", "_", "0", "7", ".", "t", "x", "t">>,
      <<"n", "o", "p", "e", ".", "t", "x", "t">>,
      <<"c", "_", "sup2", ".", "t", "x", "t">> }

HandleFiles ==
    { [name |-> n, kind |-> "text", lines |-> t] : n \in HandleNames, t \in HandleTexts }
    \cup { [name |-> n, kind |-> "binary", lines |-> <<>>] : n \in HandleNames }

-----------------------------------------------------------------------------
(* The three functions called on their own *)

NotCalled == [exc |-> "pending", val |-> None]
\* a file of the run: absent, or present with its content
NoFile == [exists |-> FALSE, data |-> <<>>]
FileWith(d) == [exists |-> TRUE, data |-> d]
\* args.labels_dir not given
NoDir == [given |-> FALSE, entries |-> {}]

lineVars == <<line, parsed>>
frameVars == <<fname, frame>>
handleVars == <<fh, ret>>
mainVars == <<labels_dir, archive, rows, out, todo, ai, csv, nwrites, plot, plotfile,
              status>>

LineIdle == line = <<>> /\ parsed = NotCalled
FrameIdle == fname = <<>> /\ frame = NotCalled
HandleIdle == fh = [name |-> <<>>, kind |-> "text", lines |-> <<>>] /\ ret = NotCalled
MainIdle ==
    /\ labels_dir = NoDir /\ archive = <<>> /\ rows = <<>> /\ out = <<>>
    /\ todo = <<>> /\ ai = 0 /\ csv = NoFile /\ nwrites = 0 /\ plot = FALSE
    /\ plotfile = NoFile
    /\ status = "running"

InitLine ==
    /\ pc = "parse_label_line" /\ line \in Lines /\ parsed = NotCalled
    /\ FrameIdle /\ HandleIdle /\ MainIdle

call_parse_label_line ==
    /\ pc = "parse_label_line"
    /\ parsed' = parse_label_line(line)
    /\ pc' = "returned"
    /\ UNCHANGED <<line, frameVars, handleVars, mainVars>>

SpecLine == InitLine /\ [][call_parse_label_line]_vars

InitFrame ==
    /\ pc = "extract_frame_index" /\ fname \in Names /\ frame = NotCalled
    /\ LineIdle /\ HandleIdle /\ MainIdle

call_extract_frame_index ==
    /\ pc = "extract_frame_index"
    /\ frame' = extract_frame_index(fname)
    /\ pc' = "returned"
    /\ UNCHANGED <<fname, lineVars, handleVars, mainVars>>

SpecFrame == InitFrame /\ [][call_extract_frame_index]_vars

InitHandle ==
    /\ pc = "process_txt_handle" /\ fh \in HandleFiles /\ ret = NotCalled
    /\ LineIdle /\ FrameIdle /\ MainIdle

call_process_txt_handle ==
    /\ pc = "process_txt_handle"
    /\ ret' = process_txt_handle(fh.name, fh)
    /\ pc' = "returned"
    /\ UNCHANGED <<fh, lineVars, frameVars, mainVars>>

SpecHandle == InitHandle /\ [][call_process_txt_handle]_vars

\* the default specification: parse_label_line on its own
Spec == SpecLine

-----------------------------------------------------------------------------
(* Properties of parse_label_line, checked under SpecLine *)

\* a line the specification calls well formed: at least five tokens, every one
\* a float literal, the first convertible to an integer
WellFormed(l) ==
    /\ Len(l) >= 5
    /\ \A i \in 1..Len(l) : l[i].k # "bad"
    /\ l[1].k = "dec"

\* the floats of the tokens after the first five
RemOf(l) == [j \in 1..(Len(l) - 5) |-> to_float(l[j + 5]).val]

\* kps is the first k (x, y, confidence) triplets of rem, in token order
IsTriplets(kps, rem, k) ==
    /\ Len(kps) = k
    /\ \A j \in 1..k : /\ kps[j] = <<rem[3 * j - 2], rem[3 * j - 1], rem[3 * j]>>
                       /\ kps[j][3] # None

\* kps is the first k (x, y, absent) pairs of rem, in token order
IsPairs(kps, rem, k) ==
    /\ Len(kps) = k
    /\ \A j \in 1..k : kps[j] = <<rem[2 * j - 1], rem[2 * j], None>>

\* C4: on every well-formed line the remainder is grouped by priority: empty
\* gives no keypoints; else a length that is a multiple of 3 gives triplets with
\* confidence; else an even length gives pairs without confidence; else
\* floor(len/2) pairs from the start, the last token dropped.
C4_GroupingPriority ==
    (pc = "returned" /\ WellFormed(line)) =>
        /\ parsed.exc = "none"
        /\ parsed.val # None
        /\ LET rem == RemOf(line)
               n == Len(rem)
               kps == parsed.val.kps
           IN  CASE n = 0 -> kps = <<>>
                 [] n > 0 /\ n % 3 = 0 -> IsTriplets(kps, rem, n \div 3)
                 [] n % 3 # 0 /\ n % 2 = 0 -> IsPairs(kps, rem, n \div 2)
                 [] OTHER -> IsPairs(kps, rem, n \div 2)

\* a remainder of six tokens (a multiple of 6) was read as two triplets
C4_Witness ==
    /\ pc = "returned" /\ WellFormed(line) /\ Len(line) = 11
    /\ parsed.exc = "none" /\ Len(parsed.val.kps) = 2
    /\ parsed.val.kps[1][3] # None

\* C5 as stated (P1): for every k, 5 tokens give no keypoints, 5+3k tokens give
\* k triplets, 5+2k tokens give k pairs without confidence, and 5+2k+1 tokens
\* (k >= 1) give k pairs with the last token dropped.
C5_RoutingAsStated ==
    (pc = "returned" /\ WellFormed(line)) =>
        /\ parsed.exc = "none"
        /\ parsed.val # None
        /\ LET rem == RemOf(line)
               n == Len(line)
               kps == parsed.val.kps
           IN  /\ n = 5 => kps = <<>>
               /\ \A k \in 0..Len(rem) :
                    /\ n = 5 + 3 * k => IsTriplets(kps, rem, k)
                    /\ n = 5 + 2 * k => IsPairs(kps, rem, k)
                    /\ (k >= 1 /\ n = 5 + 2 * k + 1) => IsPairs(kps, rem, k)

\* C5 as amended: the two pair cases apply only when the remainder's length is
\* no multiple of 3; a remainder whose length is a multiple of 3 is triplets.
C5_RoutingAmended ==
    (pc = "returned" /\ WellFormed(line)) =>
        /\ parsed.exc = "none"
        /\ parsed.val # None
        /\ LET rem == RemOf(line)
               n == Len(line)
               kps == parsed.val.kps
           IN  /\ n = 5 => kps = <<>>
               /\ \A k \in 0..Len(rem) :
                    /\ n = 5 + 3 * k => IsTriplets(kps, rem, k)
                    /\ (n = 5 + 2 * k /\ (2 * k) % 3 # 0) => IsPairs(kps, rem, k)
                    /\ (k >= 1 /\ n = 5 + 2 * k + 1 /\ (2 * k + 1) % 3 # 0)
                          => IsPairs(kps, rem, k)

\* a remainder of seven tokens was read as three pairs, its last token dropped
C5_Witness ==
    /\ pc = "returned" /\ WellFormed(line) /\ Len(line) = 12
    /\ parsed.exc = "none" /\ Len(parsed.val.kps) = 3
    /\ parsed.val.kps[3][3] = None

-----------------------------------------------------------------------------
(* Properties of extract_frame_index, checked under SpecFrame *)

\* the longest run of decimal digits that ends s
TrailingDigits(s) ==
    LET lens == {m \in 0..Len(s) : \A j \in (Len(s) - m + 1)..Len(s) : IsDecimal(s[j])}
    IN  SubSeq(s, Len(s) - (CHOOSE m \in lens : \A q \in lens : q <= m) + 1, Len(s))

\* the frame index the claim describes for name f
ClaimedFrame(f) ==
    LET b == basename(f)
        n == Len(b)
        run == IF n >= 4 /\ SubSeq(b, n - 3, n) = DotTxt
               THEN TrailingDigits(SubSeq(b, 1, n - 4)) ELSE <<>>
        seg == AfterLast(BeforeLast(b, "."), "_")
    IN  IF run # <<>> THEN PyInt(DecimalValue(run))
        ELSE IF isdigit(seg) THEN PyInt(DecimalValue(SelectSeq(seg, IsDecimal)))
        ELSE None

\* C9: for every name, extract_frame_index never raises and returns the value of
\* the digit run before a final .txt of the basename, else the value of the last
\* '_'-segment of the extension-stripped basename when it is all digits, else
\* absent.
C9_FrameIndexNeverRaises ==
    pc = "returned" => /\ frame.exc = "none"
                       /\ frame.val = ClaimedFrame(fname)

\* what does hold: the value is the claimed one whenever the call returns, and
\* it returns on every name whose last segment has no non-decimal digit
FrameIndexWhenReturned ==
    pc = "returned" =>
        /\ frame.exc = "none" => frame.val = ClaimedFrame(fname)
        /\ frame.exc # "none" =>
              \E i \in 1..Len(fname) : IsDigit(fname[i]) /\ ~IsDecimal(fname[i])

-----------------------------------------------------------------------------
(* Properties of process_txt_handle, checked under SpecHandle *)

\* a non-empty line for which the parser returns a record
IsAccepted(l) ==
    /\ l # <<>>
    /\ parse_label_line(l).exc = "none"
    /\ parse_label_line(l).val # None

Coordinates == {"nose_x", "nose_y", "mouth_x", "mouth_y"}

\* C1: parse_label_line raises on no non-empty line and returns the skip
\* sentinel on every malformed one, so process_txt_handle surfaces no error and
\* returns one row for each well-formed line of the file.
C1_MalformedLineSkipped ==
    (pc = "returned" /\ fh.kind = "text") =>
        /\ \A i \in 1..Len(fh.lines) :
             fh.lines[i] # <<>> =>
                /\ parse_label_line(fh.lines[i]).exc = "none"
                /\ ~WellFormed(fh.lines[i]) => parse_label_line(fh.lines[i]).val = None
        /\ extract_frame_index(fh.name).exc = "none" =>
             /\ ret.exc = "none"
             /\ Len(ret.val) = Len(SelectSeq(fh.lines, WellFormed))

\* C6: in every row returned, d_px is present iff the four coordinates are,
\* d_norm is present iff d_px is, and each of them is present exactly when the
\* row's line had at least two keypoints.
C6_DistancePairing ==
    (pc = "returned" /\ ret.exc = "none") =>
        LET acc == SelectSeq(fh.lines, IsAccepted) IN
        /\ Len(ret.val) = Len(acc)
        /\ \A i \in 1..Len(ret.val) :
             LET r == ret.val[i]
                 two == Len(parse_label_line(acc[i]).val.kps) >= 2
             IN  /\ r.d_px # None <=> \A c \in Coordinates : r[c] # None
                 /\ r.d_norm # None <=> r.d_px # None
                 /\ \A c \in Coordinates : r[c] # None <=> two
                 /\ r.d_px # None <=> two

\* a file returned a row with one keypoint (all absent) and a row with two
C6_Witness ==
    /\ pc = "returned" /\ ret.exc = "none" /\ Len(ret.val) = 2
    /\ Len(fh.lines[1]) = 7 /\ Len(fh.lines[2]) = 9
    /\ ret.val[1].d_px = None /\ ret.val[2].d_px # None

\* C7: for every readable file process_txt_handle returns one row per accepted
\* line and none for a skipped line; a row of a line with fewer than two
\* keypoints carries the file's name and frame index and has the six metric
\* fields absent.  (Stated for the names whose frame index is computed.)
C7_RowPerAcceptedLine ==
    (pc = "returned" /\ fh.kind = "text" /\ extract_frame_index(fh.name).exc = "none") =>
        LET acc == SelectSeq(fh.lines, WellFormed) IN
        /\ ret.exc = "none"
        /\ Len(ret.val) = Len(acc)
        /\ \A i \in 1..Len(ret.val) :
             LET r == ret.val[i] IN
             Len(kps_of(RemOf(acc[i]))) < 2 =>
                /\ r.filename = fh.name
                /\ r.frame = extract_frame_index(fh.name).val
                /\ \A c \in Coordinates : r[c] = None
                /\ r.d_px = None /\ r.d_norm = None

-----------------------------------------------------------------------------
(* The generated file system: the label directory's entries and the archives'
   members, by name *)

L3 == MkLine(3, 0, "bad", 0)
L5 == MkLine(5, 0, "bad", 0)
L9 == MkLine(9, 0, "bad", 0)
L11 == MkLine(11, 0, "bad", 1)
Lnan == MkLine(9, 1, "nan", 0)

DirPool == {"a_10.txt", "a_2.TXT", "b_3.txt", "c_4.txt", "d_5.md", "e_6.txt"}

MemberPool == {"l/a_10.txt", "l/a_2.txt", "l/b_3.txt"}

\* the characters of each name
chars ==
    [n \in DirPool \cup MemberPool |->
        CASE n = "a_10.txt" -> <<"a", "_", "1", "0", ".", "t", "x", "t">>
          [] n = "a_2.TXT" -> <<"a", "_", "2", ".", "T", "X", "T">>
          [] n = "b_3.txt" -> <<"b", "_", "3", ".", "t", "x", "t">>
          [] n = "c_4.txt" -> <<"c", "_", "4", ".", "t", "x", "t">>
          [] n = "d_5.md" -> <<"d", "_", "5", ".", "m", "d">>
          [] n = "e_6.txt" -> <<"e", "_", "6", ".", "t", "x", "t">>
          [] n = "l/a_10.txt" -> <<"l", "/", "a", "_", "1", "0", ".", "t", "x", "t">>
          [] n = "l/a_2.txt" -> <<"l", "/", "a", "_", "2", ".", "t", "x", "t">>
          [] n = "l/b_3.txt" -> <<"l", "/", "b", "_", "3", ".", "t", "x", "t">>]

Content(kind, text) == [kind |-> kind, lines |-> text]

\* what each name holds: text with its lines, bytes that are no UTF-8 text
\* ("binary"), or a file that may not be opened ("denied")
Disk ==
    [n \in DirPool \cup MemberPool |->
        CASE n = "a_10.txt" -> Content("text", <<L5, L9>>)
          [] n = "a_2.TXT" -> Content("text", <<L3, L11>>)
          [] n = "b_3.txt" -> Content("binary", <<>>)
          [] n = "c_4.txt" -> Content("text", <<L9, Lnan>>)
          [] n = "d_5.md" -> Content("text", <<L9>>)
          [] n = "e_6.txt" -> Content("denied", <<>>)
          [] n = "l/a_10.txt" -> Content("text", <<L9>>)
          [] n = "l/a_2.txt" -> Content("binary", <<>>)
          [] n = "l/b_3.txt" -> Content("text", <<L5, L11>>)]

Dirs == {[given |-> TRUE, entries |-> S] :
            S \in {T \in SUBSET DirPool : Cardinality(T) <= MaxDirFiles}}

Archives == {S \in SUBSET MemberPool : Cardinality(S) <= MaxMembers}

ArchiveLists == UNION {[1..n -> Archives] : n \in 0..MaxArchives}

-----------------------------------------------------------------------------
(* Directory and archive enumeration *)

\* the code point of a character of the generated names
Code(c) ==
    CASE c = "." -> 46 [] c = "/" -> 47 [] c = "T" -> 84 [] c = "X" -> 88
      [] c = "_" -> 95 [] c = "a" -> 97 [] c = "b" -> 98 [] c = "c" -> 99
      [] c = "d" -> 100 [] c = "e" -> 101 [] c = "l" -> 108 [] c = "m" -> 109
      [] c = "t" -> 116 [] c = "x" -> 120
      [] OTHER -> 48 + DigitVal(c)

RECURSIVE LexLess(_, _)
\* a < b for two strings: by code point, a proper prefix first
LexLess(a, b) ==
    IF b = <<>> THEN FALSE
    ELSE IF a = <<>> THEN TRUE
    ELSE IF Code(a[1]) # Code(b[1]) THEN Code(a[1]) < Code(b[1])
    ELSE LexLess(Tail(a), Tail(b))

Lower(c) == IF c = "T" THEN "t" ELSE IF c = "X" THEN "x" ELSE c

\* name.lower().endswith('.txt')
EndsWithTxt(n) ==
    /\ Len(n) >= 4
    /\ [i \in 1..4 |-> Lower(n[Len(n) - 4 + i])] = DotTxt

RECURSIVE sorted_descending(_)
\* a plausible slip: the names taken in descending order
sorted_descending(S) ==
    IF S = {} THEN <<>>
    ELSE LET m == CHOOSE x \in S : \A y \in S : ~LexLess(chars[x], chars[y])
         IN  <<m>> \o sorted_descending(S \ {m})

RECURSIVE sorted_by_name(_)
\* sorted(...) of names: ascending
sorted_by_name(S) ==
    IF S = {} THEN <<>>
    ELSE LET m == CHOOSE x \in S : \A y \in S : ~LexLess(chars[y], chars[x])
         IN  <<m>> \o sorted_by_name(S \ {m})

\* line 113: the .txt entries of the directory, sorted
dir_files(entries) == sorted_by_name({n \in entries : EndsWithTxt(chars[n])})

\* lines 127-128: the regular .txt members of the archive, sorted
archive_members(members) ==
    sorted_by_name({n \in members : Disk[n].kind # "dir" /\ EndsWithTxt(chars[n])})

\* lines 115-118: open(path) and process_txt_handle(fn, fh); open fails on an
\* entry that may not be read ("denied") or that is a directory ("dir")
open_and_process(n) ==
    IF Disk[n].kind \in {"denied", "dir"} THEN Raise("OSError")
    ELSE process_txt_handle(chars[n], Disk[n])

\* lines 129-132: extractfile(m), TextIOWrapper, process_txt_handle(m.name, txt);
\* extractfile returns None only for a member that is no regular file
extract_and_process(n) ==
    IF Disk[n].kind = "dir" THEN Ret(<<>>)
    ELSE process_txt_handle(chars[n], Disk[n])

-----------------------------------------------------------------------------
(* write_csv and the plot *)

CsvHeader ==
    <<"filename", "frame", "time_s", "nose_x", "nose_y", "mouth_x", "mouth_y",
      "d_px", "d_norm">>

\* a value as DictWriter writes it: None becomes the empty field
CsvField(x) == IF x = None THEN [k |-> "empty", v |-> 0] ELSE x

\* lines 136-141: the header, then one line per row with the fields in key order
csv_of(rs) ==
    <<CsvHeader>> \o
    [i \in 1..Len(rs) |->
        <<rs[i].filename, CsvField(rs[i].frame), CsvField(rs[i].time_s),
          CsvField(rs[i].nose_x), CsvField(rs[i].nose_y),
          CsvField(rs[i].mouth_x), CsvField(rs[i].mouth_y),
          CsvField(rs[i].d_px), CsvField(rs[i].d_norm)>>]

HasDistance(r) == r.d_px # None

\* lines 171-172: the points of the plot
plot_points(rs) ==
    LET with == SelectSeq(rs, HasDistance)
    IN  [i \in 1..Len(with) |->
            <<IF with[i].time_s # None THEN with[i].time_s ELSE with[i].frame,
              with[i].d_px>>]

-----------------------------------------------------------------------------
(* main *)

InitMain ==
    /\ pc = "main"
    /\ labels_dir \in {NoDir} \cup Dirs
    /\ archive \in ArchiveLists
    /\ plot \in BOOLEAN
    /\ rows = <<>> /\ out = <<>> /\ todo = <<>> /\ ai = 0
    /\ csv = NoFile /\ nwrites = 0 /\ plotfile = NoFile
    /\ status = "running"
    /\ LineIdle /\ FrameIdle /\ HandleIdle

pureVars == <<lineVars, frameVars, handleVars>>
argVars == <<labels_dir, archive, plot>>

\* lines 155-158 and 112-113: rows = []; enter process_dir when a directory is given
main_start ==
    /\ pc = "main" /\ status = "running"
    /\ IF labels_dir.given
       THEN /\ pc' = "process_dir"
            /\ todo' = dir_files(labels_dir.entries)
            /\ out' = <<>>
            /\ ai' = ai
       ELSE /\ pc' = "archives"
            /\ ai' = 1
            /\ UNCHANGED <<todo, out>>
    /\ UNCHANGED <<rows, csv, nwrites, plotfile, status, argVars, pureVars>>

\* a plausible slip: only I/O errors are caught, a failure inside the
\* processing escapes process_dir
process_dir_file_narrow_except ==
    /\ pc = "process_dir" /\ status = "running" /\ todo # <<>>
    /\ LET r == open_and_process(Head(todo)) IN
       IF r.exc \in {"none", "OSError", "UnicodeDecodeError"}
       THEN /\ out' = IF r.exc = "none" THEN out \o r.val ELSE out
            /\ todo' = Tail(todo)
            /\ UNCHANGED status
       ELSE /\ status' = r.exc
            /\ UNCHANGED <<out, todo>>
    /\ UNCHANGED <<pc, rows, ai, csv, nwrites, plotfile, argVars, pureVars>>

\* lines 114-121: one turn of the loop: the file's rows are appended, or, on any
\* exception, nothing is and the loop goes on
process_dir_file ==
    /\ pc = "process_dir" /\ status = "running" /\ todo # <<>>
    /\ LET r == open_and_process(Head(todo)) IN
       out' = IF r.exc = "none" THEN out \o r.val ELSE out
    /\ todo' = Tail(todo)
    /\ UNCHANGED <<pc, rows, ai, csv, nwrites, plotfile, status, argVars, pureVars>>

\* lines 122 and 158: process_dir returns out, main binds it to rows
process_dir_return ==
    /\ pc = "process_dir" /\ status = "running" /\ todo = <<>>
    /\ rows' = out
    /\ out' = <<>>
    /\ pc' = "archives"
    /\ ai' = 1
    /\ UNCHANGED <<todo, csv, nwrites, plotfile, status, argVars, pureVars>>

\* lines 159-162 and 125-128: the next archive is opened; tarfile.open may fail
\* (a missing file, no gzip data), and the exception leaves main
process_archive_open ==
    /\ pc = "archives" /\ status = "running" /\ ai <= Len(archive)
    /\ \E opened \in BOOLEAN :
         IF opened
         THEN /\ pc' = "process_archive"
              /\ todo' = archive_members(archive[ai])
              /\ out' = <<>>
              /\ UNCHANGED status
         ELSE /\ status' = "ReadError"
              /\ UNCHANGED <<pc, todo, out>>
    /\ UNCHANGED <<rows, ai, csv, nwrites, plotfile, argVars, pureVars>>

\* lines 128-132: one turn of the loop: the member's rows are appended; an
\* exception of the read or of the processing leaves process_archive and main
process_archive_member ==
    /\ pc = "process_archive" /\ status = "running" /\ todo # <<>>
    /\ LET r == extract_and_process(Head(todo)) IN
       IF r.exc = "none"
       THEN /\ out' = out \o r.val
            /\ todo' = Tail(todo)
            /\ UNCHANGED status
       ELSE /\ status' = r.exc
            /\ UNCHANGED <<out, todo>>
    /\ UNCHANGED <<pc, rows, ai, csv, nwrites, plotfile, argVars, pureVars>>

\* a plausible slip: the CSV flushed after every archive
process_archive_return_flush ==
    /\ pc = "process_archive" /\ status = "running" /\ todo = <<>>
    /\ rows' = rows \o out
    /\ out' = <<>>
    /\ ai' = ai + 1
    /\ pc' = "archives"
    /\ csv' = FileWith(csv_of(rows \o out))
    /\ nwrites' = nwrites + 1
    /\ UNCHANGED <<todo, plotfile, status, argVars, pureVars>>

\* lines 133 and 162: process_archive returns out, main extends rows by it
process_archive_return ==
    /\ pc = "process_archive" /\ status = "running" /\ todo = <<>>
    /\ rows' = rows \o out
    /\ out' = <<>>
    /\ ai' = ai + 1
    /\ pc' = "archives"
    /\ UNCHANGED <<todo, csv, nwrites, plotfile, status, argVars, pureVars>>

\* lines 164-166 and 135-141: after the last archive the CSV is opened and
\* written; the open may fail, and the exception leaves main
write_csv ==
    /\ pc = "archives" /\ status = "running" /\ ai > Len(archive)
    /\ \E opened \in BOOLEAN :
         IF opened
         THEN /\ csv' = FileWith(csv_of(rows))
              /\ nwrites' = nwrites + 1
              /\ pc' = "plot"
              /\ UNCHANGED status
         ELSE /\ status' = "OSError"
              /\ pc' = "write_csv"
              /\ UNCHANGED <<csv, nwrites>>
    /\ UNCHANGED <<rows, out, todo, ai, plotfile, argVars, pureVars>>

\* lines 168-180: the plot, when asked for: saved, or its failure caught and
\* reported; main ends normally either way
plot_step ==
    /\ pc = "plot" /\ status = "running"
    /\ IF plot
       THEN \E saved \in BOOLEAN :
              plotfile' = IF saved THEN FileWith(plot_points(rows)) ELSE plotfile
       ELSE UNCHANGED plotfile
    /\ pc' = "done"
    /\ status' = "ok"
    /\ UNCHANGED <<rows, out, todo, ai, csv, nwrites, argVars, pureVars>>

NextMain ==
    \/ main_start
    \/ process_dir_file
    \/ process_dir_return
    \/ process_archive_open
    \/ process_archive_member
    \/ process_archive_return
    \/ write_csv
    \/ plot_step

SpecMain == InitMain /\ [][NextMain]_vars

-----------------------------------------------------------------------------
(* Properties of main, checked under SpecMain *)

\* how many of the generated names come before n in lexicographic order
NameRank ==
    [n \in DirPool \cup MemberPool |->
        Cardinality({m \in DirPool \cup MemberPool : LexLess(chars[m], chars[n])})]

\* the i-th name of S in lexicographic order: the one with i - 1 names of S
\* before it
Nth(S, i) ==
    CHOOSE x \in S : Cardinality({y \in S : NameRank[y] < NameRank[x]}) = i - 1

Ordered(S) == [i \in 1..Cardinality(S) |-> Nth(S, i)]

\* what a file contributes: all its rows, or none when it cannot be opened,
\* read, decoded or processed
FileRows ==
    [n \in DirPool \cup MemberPool |->
        LET r == open_and_process(n) IN IF r.exc = "none" THEN r.val ELSE <<>>]

RECURSIVE ConcatRows(_)
ConcatRows(fs) == IF fs = <<>> THEN <<>> ELSE FileRows[Head(fs)] \o ConcatRows(Tail(fs))

TxtNames(S) == {n \in S : EndsWithTxt(chars[n])}

\* what a source contributes: the rows of its .txt files in order of name
SourceRows(S) == ConcatRows(Ordered(TxtNames(S)))

ExpectedDir == IF labels_dir.given THEN SourceRows(labels_dir.entries) ELSE <<>>

RECURSIVE ExpectedArchives(_)
\* the rows of archives i, i + 1, ... in argument order
ExpectedArchives(i) ==
    IF i > Len(archive) THEN <<>>
    ELSE SourceRows(archive[i]) \o ExpectedArchives(i + 1)

ExpectedAll == ExpectedDir \o ExpectedArchives(1)

IsPrefix(s, t) == Len(s) <= Len(t) /\ SubSeq(t, 1, Len(s)) = s

\* the entries of the sorted sequence all that the loop has gone past
Visited(all) == SubSeq(all, 1, Len(all) - Len(todo))

\* the rows gathered so far: rows, and the out of the source being read
Gathered == IF pc \in {"process_dir", "process_archive"} THEN rows \o out ELSE rows

Aborted == status \notin {"running", "ok"}

\* C2: in archive mode an undecodable or truncated member contributes no rows
\* and the loop goes on with the next member: process_archive never ends in an
\* exception, and a finished run holds the rows of every readable member.
C2_ArchiveSkipsUnreadableMember ==
    /\ pc = "process_archive" =>
          /\ status = "running"
          /\ out = ConcatRows(Visited(Ordered(TxtNames(archive[ai]))))
    /\ status = "ok" => rows = ExpectedAll

\* C3: in directory mode a file whose open, read, decode or processing fails
\* contributes no row (never a prefix of its rows), every other .txt file
\* contributes all of its rows, and process_dir returns normally.
C3_DirSkipsFailingFile ==
    /\ pc = "process_dir" =>
          /\ status = "running"
          /\ out = ConcatRows(Visited(Ordered(TxtNames(labels_dir.entries))))
    /\ (pc = "archives" /\ ai = 1) => rows = ExpectedDir

\* a directory of one valid file and one corrupt file gave the valid file's rows
C3_Witness ==
    /\ pc = "archives" /\ ai = 1 /\ labels_dir.given
    /\ labels_dir.entries = {"a_10.txt", "b_3.txt"}
    /\ Disk["b_3.txt"].kind = "binary"
    /\ rows = process_txt_handle(chars["a_10.txt"], Disk["a_10.txt"]).val
    /\ Len(rows) = 2

\* C8: the rows are the directory's first, then each archive's in argument
\* order, by lexicographic order of name within a source and by line within a
\* file; what was gathered is never reordered, changed or removed.
C8_RowOrder ==
    /\ [](LET expected == ExpectedAll IN
          /\ IsPrefix(Gathered, expected)
          /\ (pc \in {"plot", "done"} \/ (pc = "archives" /\ ai > Len(archive)))
                => rows = expected
          /\ csv.exists => csv.data = csv_of(expected))
    /\ [][IsPrefix(Gathered, Gathered')]_vars

\* a finished run over a directory of two files and two archives: frame 10
\* before frame 2 (name order, not frame order), the archives after, in order
C8_Witness ==
    /\ pc = "done" /\ labels_dir.given /\ Len(archive) = 2
    /\ Len(rows) = 6
    /\ rows[1].frame = PyInt(10) /\ rows[2].frame = PyInt(10)
    /\ rows[3].frame = PyInt(2)
    /\ rows[4].frame = PyInt(3) /\ rows[5].frame = PyInt(3)
    /\ rows[6].frame = PyInt(10)
    /\ rows[2].d_px # None /\ rows[1].d_px = None

\* C10: the CSV is opened and written at most once, only after the directory
\* and every archive were consumed; a run that an input aborts leaves no CSV;
\* the plot step, failing or not, leaves the CSV as written and the run a
\* success.
C10_CsvWrittenOnceAtEnd ==
    /\ [](/\ nwrites <= 1
          /\ csv.exists <=> nwrites = 1
          /\ csv.exists => /\ pc \in {"plot", "done"}
                           /\ ai > Len(archive)
                           /\ csv.data = csv_of(rows)
          /\ Aborted => ~csv.exists
          /\ pc = "done" => status = "ok" /\ csv.exists)
    /\ [][csv.exists => csv' = csv]_vars

\* a run whose plot failed: ended normally, the CSV written, no plot file
C10_Witness ==
    /\ pc = "done" /\ status = "ok" /\ plot /\ ~plotfile.exists
    /\ csv.exists /\ Len(csv.data) = 1 + Len(rows) /\ Len(rows) >= 2

=============================================================================
